---- MODULE Spec2Model ----
(***************************************************************************)
(* Model of the pop-opt build driver (src/src/main.rs, fn build) and of    *)
(* the per-package pipeline (src/src/pkg.rs, Pkg::build, Pkg::source,      *)
(* Pkg::sbuild_thread).                                                    *)
(*                                                                         *)
(* The state is the on-disk stage directories of every package (for the    *)
(* resolved version), the scratch share directory, the pool, and the       *)
(* in-memory state of one running process: the driver's position, its loop *)
(* indices, its Config, and the worker threads.  External commands exit    *)
(* with success or failure nondeterministically.  Filesystem calls of the  *)
(* standard library are taken to succeed; a kill of the process (Interrupt)*)
(* can land at any position.                                               *)
(* The resolved version of a package is the same in every run: in the      *)
(* pipeline apt-cache showsrc lists one Version field per package.  The    *)
(* version loop on any list of candidates is SpecVersion, the link loop on *)
(* any sbuild directories and any pool directory is SpecPool.              *)
(***************************************************************************)
EXTENDS Integers, Sequences, FiniteSets, TLC

\* ------------------------------------------------------------------ bounds
MaxRuns == 2
NumPatches == 2
MaxVersions == 3

\* ------------------------------------------------------- program constants
PkgList == <<"p1", "p2">>
Pkgs == {PkgList[i] : i \in 1..Len(PkgList)}
sbuild_archs == <<"amd64", "i386">>
Archs == {sbuild_archs[i] : i \in 1..Len(sbuild_archs)}
Stages == {"source"} \cup Archs

\* Pkg.patches: the first package declares NumPatches patches, the others none
\* the patches are numbered by their file names; they are declared in another
\* order than that of their names
patches(p) == IF p = PkgList[1]
                THEN [i \in 1..NumPatches |-> NumPatches + 1 - i] ELSE <<>>

\* args of `pop-opt build`: empty selects every package
ArgSets == {{}} \cup {{p} : p \in Pkgs}
Selected(a, p) == ~ (a # {} /\ p \notin a)

\* --------------------------------------------------------------- commands
Cmd(c, n) == [cmd |-> c, arg |-> n]
SourceCmds(p) == <<Cmd("fetch", 0), Cmd("extract", 0), Cmd("cp", 0)>>
                 \o [i \in 1..Len(patches(p)) |-> Cmd("patch", patches(p)[i])]
                 \o <<Cmd("dch", 0), Cmd("dsc", 0)>>
\* sbuild with --arch-all for every architecture
SbuildCmdsAllArch(a) == <<Cmd("sbuild", 1)>>

\* the sbuild command of architecture a; arg 1 is --arch-all, 0 --no-arch-all
SbuildCmds(a) == <<Cmd("sbuild", IF a = "amd64" THEN 1 ELSE 0)>>
StageCmds(p, s) == IF s = "source" THEN SourceCmds(p) ELSE SbuildCmds(s)
Range(f) == {f[i] : i \in DOMAIN f}
AllCmds == UNION {Range(StageCmds(p, s)) : p \in Pkgs, s \in Stages}
           \cup {Cmd("showsrc", 0), Cmd("compare", 0)}

\* --------------------------------------------------------------- versions
\* a Version field with what `dpkg --compare-versions` reads in it: the epoch,
\* the numbers of the upstream version and those of the revision ("2ubuntu1"
\* is 2, 1; no suffix is 0).  VersionList is in the byte order of the strings.
Ver(t, e, u, r) == [text |-> t, epoch |-> e, up |-> u, rev |-> r]
VersionList == <<Ver("0.10-1", 0, <<0, 10>>, <<1, 0>>),
                 Ver("0.9-1", 0, <<0, 9>>, <<1, 0>>),
                 Ver("1.0-1", 0, <<1, 0>>, <<1, 0>>),
                 Ver("1.0-2ubuntu1", 0, <<1, 0>>, <<2, 1>>),
                 Ver("1.00-1", 0, <<1, 0>>, <<1, 0>>),
                 Ver("1:0.1-1", 1, <<0, 1>>, <<1, 0>>)>>
Versions == Range(VersionList)

\* dpkg's order: epoch, then upstream version, then revision, number by number
VersionKey(v) == <<v.epoch>> \o v.up \o v.rev
SeqGt(a, b) == \E i \in 1..Len(a) :
                 a[i] > b[i] /\ \A j \in 1..(i - 1) : a[j] = b[j]
DpkgGt(a, b) == SeqGt(VersionKey(a), VersionKey(b))

\* exit status of `dpkg --compare-versions o gt v`: 0 when o is greater, 1 when
\* it is not, 2 (or no code at all, after a signal) when dpkg broke off
DpkgStatus(o, v, fault) == IF fault THEN 2 ELSE IF DpkgGt(o, v) THEN 0 ELSE 1

\* the Version fields apt-cache showsrc lists for a package of the pipeline:
\* one candidate, so that the resolved version is the same in every run
PkgVersions(p) == <<VersionList[3]>>

\* any list of Version fields of at most MaxVersions candidates
VersionLists == UNION {[1..n -> Versions] : n \in 1..MaxVersions}

\* ------------------------------------------------------------ directories
Absent == [exists |-> FALSE, gen |-> 0, exec |-> <<>>, files |-> {}]
NewDir(g) == [exists |-> TRUE, gen |-> g, exec |-> <<>>, files |-> {}]
IsDeb(f) == f \in {"amd64.deb", "i386.deb", "all.deb"}
FileOrder == <<"sbuild.conf", "changes", "all.deb", "amd64.deb", "i386.deb">>

VARIABLES
  run,      \* number of process invocations started so far
  args,     \* package names given on the command line of this run
  pc,       \* position of the driver thread; "idle" when no process runs
  err,      \* error the driver returned with, "none" otherwise
  idx,      \* index into pkgs of the driver's current loop
  aidx,     \* index into sbuild_archs / threads of the current inner loop
  pidx,     \* index into self.patches in Pkg::source
  config,   \* Config of the package being built
  disk,     \* disk[p][s]: the partial and the complete directory of stage s
  share,    \* share[p]: scratch directory under /var/lib/sbuild/build exists
  thr,      \* thr[p][a]: position of the worker thread of (p, a)
  result,   \* result[p][s]: value the stage returned in this run
  debs,     \* Vec debs of the package being aggregated
  pool,     \* pool[p]: links under pool/<dist>/<p>
  ran,      \* ran[p][c]: times command c was run for p in this run
  entry,    \* entry[p][s]: the stage's directories when it was invoked
  art,      \* art[p][a]: .deb files the driver collected from worker (p, a)
  prev,     \* args and art of the previous run, if it collected every worker
  vlist,    \* versions: the Version fields of the apt-cache showsrc output
  vi,       \* index of other_version in the loop over versions
  vmax,     \* index in versions of the variable `version`
  vstat,    \* exit statuses of the comparisons of this resolution so far
  nonzero   \* nonzero[p][c]: times command c exited non-zero for p in this run

vars == <<run, args, pc, err, idx, aidx, pidx, config, disk, share, thr,
          result, debs, pool, ran, entry, art, prev, vlist, vi, vmax, vstat,
          nonzero>>
vver == <<vlist, vi, vmax, vstat>>

NoEntry == [called |-> FALSE, partial |-> Absent, complete |-> Absent,
            rebuild |-> FALSE, retry |-> FALSE]
NoStage == [partial |-> Absent, complete |-> Absent]
NoConfig == [rebuild |-> FALSE, retry |-> FALSE]
NotJoined == {"not joined"}
Failed == {"failed"}

Reset2(S, v) == [p \in Pkgs |-> [s \in S |-> v]]
NoPrev == [ok |-> FALSE, args |-> {}, art |-> Reset2(Archs, NotJoined)]

Init ==
  /\ run = 0
  /\ args = {}
  /\ pc = "idle"
  /\ err = "none"
  /\ idx = 1
  /\ aidx = 1
  /\ pidx = 1
  /\ config = NoConfig
  /\ disk = Reset2(Stages, NoStage)
  /\ share = [p \in Pkgs |-> FALSE]
  /\ thr = Reset2(Archs, "none")
  /\ result = Reset2(Stages, "none")
  /\ debs = <<>>
  /\ pool = [p \in Pkgs |-> {}]
  /\ ran = [p \in Pkgs |-> [c \in AllCmds |-> 0]]
  /\ entry = Reset2(Stages, NoEntry)
  /\ art = Reset2(Archs, NotJoined)
  /\ prev = NoPrev
  /\ vlist = <<>>
  /\ vi = 1
  /\ vmax = 1
  /\ vstat = <<>>
  /\ nonzero = [p \in Pkgs |-> [c \in AllCmds |-> 0]]

\* --------------------------------------------------------------- helpers
cur == PkgList[idx]
curArch == sbuild_archs[aidx]
\* the Config of Pkg::build with retry: true
DriverConfigRetry == [rebuild |-> FALSE, retry |-> TRUE]

DriverConfig == [rebuild |-> FALSE, retry |-> FALSE]
AnyConfig == [rebuild : BOOLEAN, retry : BOOLEAN]

SetDir(p, s, which, d) == [disk EXCEPT ![p][s][which] = d]
Ran(p, c) == [ran EXCEPT ![p][c] = @ + 1]
NonZero(p, c, ok) == IF ok THEN nonzero ELSE [nonzero EXCEPT ![p][c] = @ + 1]
Snapshot(p, s, c) == [called |-> TRUE, partial |-> disk[p][s].partial,
                      complete |-> disk[p][s].complete,
                      rebuild |-> c.rebuild, retry |-> c.retry]
Invoke(p, s, c) == [entry EXCEPT ![p][s] = Snapshot(p, s, c)]
Returned(p, s, r) == [result EXCEPT ![p][s] = r]
Succeeded(d, c) == [d EXCEPT !.exec = Append(@, c)]
WithFiles(d, fs) == [d EXCEPT !.files = @ \cup fs]
RenameStage(p, s) == [disk EXCEPT ![p][s] = [partial |-> Absent,
                                             complete |-> disk[p][s].partial]]

\* output files of `sbuild --arch=a`: the packages of the architecture and,
\* with --arch-all in the command, the architecture-independent ones
SbuildOutputs(a) ==
  {IF a = "amd64" THEN "amd64.deb" ELSE "i386.deb", "changes"}
  \cup (IF SbuildCmds(a)[1].arg = 1 THEN {"all.deb"} ELSE {})

\* the entries of read_dir(dir) whose name ends with ".deb", as paths
DebPaths(a, d) ==
  LET keep(f) == f \in d.files /\ IsDeb(f)
  IN  SelectSeq([i \in 1..Len(FileOrder) |->
                   [arch |-> a, name |-> FileOrder[i], gen |-> d.gen]],
                LAMBDA x : keep(x.name))
DebNames(d) == {f \in d.files : IsDeb(f)}

\* `?`: the error leaves Pkg::build and fn build; main will exit(1)
Fail(e) == pc' = "failed" /\ err' = e

\* memory of the process, gone when the process is
Forget ==
  /\ idx' = 1 /\ aidx' = 1 /\ pidx' = 1
  /\ config' = NoConfig
  /\ thr' = Reset2(Archs, "none")
  /\ debs' = <<>>
  /\ vlist' = <<>> /\ vi' = 1 /\ vmax' = 1 /\ vstat' = <<>>

\* ------------------------------------------------- fn main / fn build
\* main.rs 329-335, 20-30: a process starts with some args
\* the run that ends here collected an Ok result from every worker of every
\* selected package
CompletedAll ==
  /\ run > 0
  /\ \A p \in Pkgs, a \in Archs :
       IF Selected(args, p) THEN art[p][a] \notin {NotJoined, Failed}
                            ELSE art[p][a] = NotJoined

Start(choices) ==
  /\ pc = "idle" /\ run < MaxRuns
  /\ run' = run + 1
  /\ \E a \in choices : args' = a
  /\ pc' = "clean" /\ err' = "none"
  /\ result' = Reset2(Stages, "none")
  /\ ran' = [p \in Pkgs |-> [c \in AllCmds |-> 0]]
  /\ nonzero' = [p \in Pkgs |-> [c \in AllCmds |-> 0]]
  /\ entry' = Reset2(Stages, NoEntry)
  /\ art' = Reset2(Archs, NotJoined)
  /\ prev' = IF CompletedAll THEN [ok |-> TRUE, args |-> args, art |-> art]
                              ELSE NoPrev
  /\ UNCHANGED <<idx, aidx, pidx, config, disk, share, thr, debs, pool>>
  /\ UNCHANGED vver

StartRun == Start(ArgSets)

\* a process that is given one package name
StartOne == Start({{p} : p \in Pkgs})

\* CleanRepo with ensure_dir in place of ensure_dir_clean: the pool is kept
CleanRepoKeep ==
  /\ pc = "clean"
  /\ pool' = pool
  /\ pc' = "loop" /\ idx' = 1
  /\ UNCHANGED <<run, args, err, aidx, pidx, config, disk, share, thr,
                 result, debs, ran, entry, art, prev>>
  /\ UNCHANGED <<vlist, vi, vmax, vstat, nonzero>>

\* main.rs 31-43: ensure_dir_clean(repo/<arch>) empties the pool
CleanRepo ==
  /\ pc = "clean"
  /\ pool' = [p \in Pkgs |-> {}]
  /\ pc' = "loop" /\ idx' = 1
  /\ UNCHANGED <<run, args, err, aidx, pidx, config, disk, share, thr,
                 result, debs, ran, entry, art, prev>>
  /\ UNCHANGED <<vlist, vi, vmax, vstat, nonzero>>

\* main.rs 44-50: head of the launch loop
LaunchLoop ==
  /\ pc = "loop"
  /\ IF idx > Len(PkgList)
       THEN pc' = "join" /\ idx' = 1
       ELSE IF ~ Selected(args, cur)
              THEN pc' = pc /\ idx' = idx + 1
              ELSE pc' = "showsrc" /\ idx' = idx
  /\ UNCHANGED <<run, args, err, aidx, pidx, config, disk, share, thr,
                 result, debs, pool, ran, entry, art, prev>>
  /\ UNCHANGED <<vlist, vi, vmax, vstat, nonzero>>

\* pkg.rs 275-309: apt-cache showsrc, Package fields
PkgShowsrc ==
  /\ pc = "showsrc"
  /\ ran' = Ran(cur, Cmd("showsrc", 0))
  /\ \E out \in {"ok", "CommandFailed", "BadMetadata"} :
       /\ IF out = "ok" THEN pc' = "version" /\ err' = err ELSE Fail(out)
       /\ nonzero' = NonZero(cur, Cmd("showsrc", 0), out # "CommandFailed")
       /\ vlist' = IF out = "ok" THEN PkgVersions(cur) ELSE vlist
  /\ vi' = 1 /\ vmax' = 1 /\ vstat' = <<>>
  /\ UNCHANGED <<run, args, idx, aidx, pidx, config, disk, share, thr,
                 result, debs, pool, entry, art, prev>>

\* VersionCompare that takes the candidate dpkg does not call greater
VersionCompareLast ==
  /\ pc = "version"
  /\ ran' = Ran(cur, Cmd("compare", 0))
  /\ \E fault \in BOOLEAN :
       LET status == DpkgStatus(vlist[vi], vlist[vmax], fault)
       IN  /\ vmax' = IF status # 0 THEN vi ELSE vmax
           /\ vstat' = Append(vstat, status)
           /\ nonzero' = NonZero(cur, Cmd("compare", 0), status = 0)
  /\ IF vi < Len(vlist) THEN vi' = vi + 1 /\ pc' = pc
                        ELSE vi' = vi /\ pc' = "config"
  /\ UNCHANGED <<run, args, err, idx, aidx, pidx, config, disk, share, thr,
                 result, debs, pool, entry, art, prev, vlist>>

\* VersionCompare with status_err on the comparison: status 0 or an error
VersionCompareStrict ==
  /\ pc = "version"
  /\ ran' = Ran(cur, Cmd("compare", 0))
  /\ \E fault \in BOOLEAN :
       LET status == DpkgStatus(vlist[vi], vlist[vmax], fault)
       IN  /\ vmax' = IF status = 0 THEN vi ELSE vmax
           /\ vstat' = Append(vstat, status)
           /\ nonzero' = NonZero(cur, Cmd("compare", 0), status = 0)
           /\ IF status # 0
                THEN Fail("CommandFailed") /\ vi' = vi
                ELSE /\ err' = err
                     /\ IF vi < Len(vlist) THEN vi' = vi + 1 /\ pc' = pc
                                           ELSE vi' = vi /\ pc' = "config"
  /\ UNCHANGED <<run, args, idx, aidx, pidx, config, disk, share, thr,
                 result, debs, pool, entry, art, prev, vlist>>

\* VersionCompare that asks dpkg `ge` instead of `gt`
VersionCompareGe ==
  /\ pc = "version"
  /\ ran' = Ran(cur, Cmd("compare", 0))
  /\ \E fault \in BOOLEAN :
       LET status == IF fault THEN 2
                     ELSE IF DpkgGt(vlist[vmax], vlist[vi]) THEN 1 ELSE 0
       IN  /\ vmax' = IF status = 0 THEN vi ELSE vmax
           /\ vstat' = Append(vstat, status)
           /\ nonzero' = NonZero(cur, Cmd("compare", 0), status = 0)
  /\ IF vi < Len(vlist) THEN vi' = vi + 1 /\ pc' = pc
                        ELSE vi' = vi /\ pc' = "config"
  /\ UNCHANGED <<run, args, err, idx, aidx, pidx, config, disk, share, thr,
                 result, debs, pool, entry, art, prev, vlist>>

\* pkg.rs 311-324: one pass of the loop over versions: dpkg compares
\* other_version with version, only exit status 0 replaces version
VersionCompare ==
  /\ pc = "version"
  /\ ran' = Ran(cur, Cmd("compare", 0))
  /\ \E fault \in BOOLEAN :
       LET status == DpkgStatus(vlist[vi], vlist[vmax], fault)
       IN  /\ vmax' = IF status = 0 THEN vi ELSE vmax
           /\ vstat' = Append(vstat, status)
           /\ nonzero' = NonZero(cur, Cmd("compare", 0), status = 0)
  /\ IF vi < Len(vlist) THEN vi' = vi + 1 /\ pc' = pc
                        ELSE vi' = vi /\ pc' = "config"
  /\ UNCHANGED <<run, args, err, idx, aidx, pidx, config, disk, share, thr,
                 result, debs, pool, entry, art, prev, vlist>>

\* pkg.rs 326-338: version_dir, Config, call of self.source
PkgConfig ==
  /\ pc = "config"
  /\ config' = DriverConfig
  /\ entry' = Invoke(cur, "source", DriverConfig)
  /\ pc' = "src_complete"
  /\ UNCHANGED <<run, args, err, idx, aidx, pidx, disk, share, thr,
                 result, debs, pool, ran, art, prev>>
  /\ vstat' = <<>>
  /\ UNCHANGED <<vlist, vi, vmax, nonzero>>

\* the same with the two policies of Config free (pkg.rs 17-24)
PkgConfigAny ==
  /\ pc = "config"
  /\ \E c \in AnyConfig : config' = c /\ entry' = Invoke(cur, "source", c)
  /\ pc' = "src_complete"
  /\ UNCHANGED <<run, args, err, idx, aidx, pidx, disk, share, thr,
                 result, debs, pool, ran, art, prev>>
  /\ vstat' = <<>>
  /\ UNCHANGED <<vlist, vi, vmax, nonzero>>

\* ------------------------------------------------------- Pkg::source
SourceErr(e) == Fail(e) /\ result' = Returned(cur, "source", e)

\* pkg.rs 340-343: call of self.sbuild_thread for the k-th architecture
StartArch(k) ==
  /\ aidx' = k /\ pc' = "sb_complete"
  /\ entry' = Invoke(cur, sbuild_archs[k], config)

\* pkg.rs 84/194: Ok(new_dsc_file), then the loop over sbuild_archs begins
SourceOk ==
  /\ result' = Returned(cur, "source", "Ok") /\ err' = err
  /\ StartArch(1)

\* SourceCommand that removes the partial directory when the command fails
SourceCommandCleanup(c, ok, fs, next) ==
  /\ ran' = Ran(cur, c)
  /\ nonzero' = NonZero(cur, c, ok)
  /\ IF ok
       THEN /\ disk' = SetDir(cur, "source", "partial",
                 WithFiles(Succeeded(disk[cur]["source"].partial, c), fs))
            /\ pc' = next /\ err' = err /\ result' = result
       ELSE /\ disk' = SetDir(cur, "source", "partial", Absent)
            /\ SourceErr("CommandFailed")

\* an external command of Pkg::source: it exits, status_err maps the status
\* (lib.rs 28-37); on success the partial directory gains the files fs
SourceCommand(c, ok, fs, next) ==
  /\ ran' = Ran(cur, c)
  /\ nonzero' = NonZero(cur, c, ok)
  /\ IF ok
       THEN /\ disk' = SetDir(cur, "source", "partial",
                 WithFiles(Succeeded(disk[cur]["source"].partial, c), fs))
            /\ pc' = next /\ err' = err /\ result' = result
       ELSE /\ disk' = disk
            /\ SourceErr("CommandFailed")

\* SourceCheckComplete that never rebuilds: config.rebuild is not looked at
SourceCheckCompleteCached ==
  /\ pc = "src_complete"
  /\ LET d == disk[cur]["source"].complete IN
       IF d.exists
         THEN /\ disk' = disk
              /\ IF "dsc" \in d.files
                   THEN SourceOk
                   ELSE SourceErr("NotFound") /\ UNCHANGED <<aidx, entry>>
         ELSE /\ pc' = "src_partial"
              /\ UNCHANGED <<disk, err, result, aidx, entry>>
  /\ UNCHANGED <<run, args, idx, pidx, config, share, thr, debs, pool, ran,
                 art, prev>>
  /\ UNCHANGED <<vlist, vi, vmax, vstat, nonzero>>

\* SourceCheckComplete that returns the cached path without the is_file test
SourceCheckCompleteNoTest ==
  /\ pc = "src_complete"
  /\ LET d == disk[cur]["source"].complete IN
       IF d.exists
         THEN IF config.rebuild
                THEN /\ disk' = SetDir(cur, "source", "complete", Absent)
                     /\ pc' = "src_partial"
                     /\ UNCHANGED <<err, result, aidx, entry>>
                ELSE /\ disk' = disk
                     /\ SourceOk
         ELSE /\ pc' = "src_partial"
              /\ UNCHANGED <<disk, err, result, aidx, entry>>
  /\ UNCHANGED <<run, args, idx, pidx, config, share, thr, debs, pool, ran,
                 art, prev>>
  /\ UNCHANGED <<vlist, vi, vmax, vstat, nonzero>>

\* pkg.rs 76-91
SourceCheckComplete ==
  /\ pc = "src_complete"
  /\ LET d == disk[cur]["source"].complete IN
       IF d.exists
         THEN IF config.rebuild
                THEN /\ disk' = SetDir(cur, "source", "complete", Absent)
                     /\ pc' = "src_partial"
                     /\ UNCHANGED <<err, result, aidx, entry>>
                ELSE /\ disk' = disk
                     /\ IF "dsc" \in d.files
                          THEN SourceOk
                          ELSE SourceErr("NotFound")
                               /\ UNCHANGED <<aidx, entry>>
         ELSE /\ pc' = "src_partial"
              /\ UNCHANGED <<disk, err, result, aidx, entry>>
  /\ UNCHANGED <<run, args, idx, pidx, config, share, thr, debs, pool, ran,
                 art, prev>>
  /\ UNCHANGED <<vlist, vi, vmax, vstat, nonzero>>

\* SourceCheckPartial with the test of config.retry inverted
SourceCheckPartialInverted ==
  /\ pc = "src_partial"
  /\ IF disk[cur]["source"].partial.exists
       THEN IF ~ config.retry
              THEN /\ disk' = SetDir(cur, "source", "partial", Absent)
                   /\ pc' = "src_create"
                   /\ UNCHANGED <<err, result>>
              ELSE /\ disk' = disk
                   /\ SourceErr("AlreadyExists")
       ELSE /\ pc' = "src_create"
            /\ UNCHANGED <<disk, err, result>>
  /\ UNCHANGED <<run, args, idx, aidx, pidx, config, share, thr, debs, pool,
                 ran, entry, art, prev>>
  /\ UNCHANGED <<vlist, vi, vmax, vstat, nonzero>>

\* pkg.rs 93-106
SourceCheckPartial ==
  /\ pc = "src_partial"
  /\ IF disk[cur]["source"].partial.exists
       THEN IF config.retry
              THEN /\ disk' = SetDir(cur, "source", "partial", Absent)
                   /\ pc' = "src_create"
                   /\ UNCHANGED <<err, result>>
              ELSE /\ disk' = disk
                   /\ SourceErr("AlreadyExists")
       ELSE /\ pc' = "src_create"
            /\ UNCHANGED <<disk, err, result>>
  /\ UNCHANGED <<run, args, idx, aidx, pidx, config, share, thr, debs, pool,
                 ran, entry, art, prev>>
  /\ UNCHANGED <<vlist, vi, vmax, vstat, nonzero>>

\* pkg.rs 108-111: create_dir(source.partial), ensure_dir_clean(share_dir)
SourceCreate ==
  /\ pc = "src_create"
  /\ IF disk[cur]["source"].partial.exists
       THEN SourceErr("AlreadyExists") /\ UNCHANGED <<disk, share>>
       ELSE /\ disk' = SetDir(cur, "source", "partial", NewDir(run))
            /\ share' = [share EXCEPT ![cur] = TRUE]
            /\ pc' = "src_fetch"
            /\ UNCHANGED <<err, result>>
  /\ UNCHANGED <<run, args, idx, aidx, pidx, config, thr, debs, pool, ran,
                 entry, art, prev>>
  /\ UNCHANGED <<vlist, vi, vmax, vstat, nonzero>>

\* pkg.rs 113-134: apt-get source --download-only, then the .dsc must exist
SourceFetch ==
  /\ pc = "src_fetch"
  /\ \E ok \in BOOLEAN, found \in BOOLEAN :
       IF ok /\ ~ found
         THEN /\ ran' = Ran(cur, Cmd("fetch", 0))
              /\ nonzero' = nonzero
              /\ disk' = SetDir(cur, "source", "partial",
                   Succeeded(disk[cur]["source"].partial, Cmd("fetch", 0)))
              /\ SourceErr("NotFound")
         ELSE SourceCommand(Cmd("fetch", 0), ok, {}, "src_extract")
  /\ UNCHANGED <<run, args, idx, aidx, pidx, config, share, thr, debs, pool,
                 entry, art, prev>>
  /\ UNCHANGED vver

\* pkg.rs 136-146: dpkg-source --extract, remove_dir_all(share_dir)
SourceExtract ==
  /\ pc = "src_extract"
  /\ \E ok \in BOOLEAN :
       /\ SourceCommand(Cmd("extract", 0), ok, {"original"}, "src_cp")
       /\ share' = IF ok THEN [share EXCEPT ![cur] = FALSE] ELSE share
  /\ UNCHANGED <<run, args, idx, aidx, pidx, config, thr, debs, pool, entry,
                 art, prev>>
  /\ UNCHANGED vver

\* pkg.rs 148-156, 159: cp -a original patched; head of the patch loop
SourceCopy ==
  /\ pc = "src_cp"
  /\ \E ok \in BOOLEAN :
       SourceCommand(Cmd("cp", 0), ok, {"patched"},
                     IF Len(patches(cur)) = 0 THEN "src_dch" ELSE "src_patch")
  /\ pidx' = 1
  /\ UNCHANGED <<run, args, idx, aidx, config, share, thr, debs, pool, entry,
                 art, prev>>
  /\ UNCHANGED vver

\* SourcePatch that applies the patches in the order of their names
SourcePatchSorted ==
  /\ pc = "src_patch"
  /\ \E ok \in BOOLEAN :
       SourceCommand(Cmd("patch", pidx), ok, {},
                     IF pidx = Len(patches(cur)) THEN "src_dch" ELSE "src_patch")
  /\ pidx' = pidx + 1
  /\ UNCHANGED <<run, args, idx, aidx, config, share, thr, debs, pool, entry,
                 art, prev>>
  /\ UNCHANGED vver

\* pkg.rs 158-167: one iteration of the patch loop
SourcePatch ==
  /\ pc = "src_patch"
  /\ \E ok \in BOOLEAN :
       SourceCommand(Cmd("patch", patches(cur)[pidx]), ok, {},
                     IF pidx = Len(patches(cur)) THEN "src_dch" ELSE "src_patch")
  /\ pidx' = pidx + 1
  /\ UNCHANGED <<run, args, idx, aidx, config, share, thr, debs, pool, entry,
                 art, prev>>
  /\ UNCHANGED vver

\* pkg.rs 169-176: dch --newversion
SourceChangelog ==
  /\ pc = "src_dch"
  /\ \E ok \in BOOLEAN : SourceCommand(Cmd("dch", 0), ok, {}, "src_dsc")
  /\ UNCHANGED <<run, args, idx, aidx, pidx, config, share, thr, debs, pool,
                 entry, art, prev>>
  /\ UNCHANGED vver

\* pkg.rs 178-183: dpkg-source --build; the tool may exit with success and
\* still not leave <name>_<new_version>.dsc (what line 187 defends against)
SourceDscBuild ==
  /\ pc = "src_dsc"
  /\ \E ok \in BOOLEAN, written \in BOOLEAN :
       SourceCommand(Cmd("dsc", 0), ok, IF written THEN {"dsc"} ELSE {},
                     "src_rename")
  /\ UNCHANGED <<run, args, idx, aidx, pidx, config, share, thr, debs, pool,
                 entry, art, prev>>
  /\ UNCHANGED vver

\* pkg.rs 185
SourceRename ==
  /\ pc = "src_rename"
  /\ disk' = RenameStage(cur, "source")
  /\ pc' = "src_verify"
  /\ UNCHANGED <<run, args, err, idx, aidx, pidx, config, share, thr, result,
                 debs, pool, ran, entry, art, prev>>
  /\ UNCHANGED <<vlist, vi, vmax, vstat, nonzero>>

\* SourceVerify without the test for the re-versioned .dsc
SourceVerifySkipped ==
  /\ pc = "src_verify"
  /\ SourceOk
  /\ UNCHANGED <<run, args, idx, pidx, config, disk, share, thr, debs, pool,
                 ran, art, prev>>
  /\ UNCHANGED <<vlist, vi, vmax, vstat, nonzero>>

\* pkg.rs 187-194
SourceVerify ==
  /\ pc = "src_verify"
  /\ IF "dsc" \in disk[cur]["source"].complete.files
       THEN SourceOk
       ELSE SourceErr("NotFound") /\ UNCHANGED <<aidx, entry>>
  /\ UNCHANGED <<run, args, idx, pidx, config, disk, share, thr, debs, pool,
                 ran, art, prev>>
  /\ UNCHANGED <<vlist, vi, vmax, vstat, nonzero>>

\* ThreadPushed that joins the threads of a package as soon as they are pushed
ThreadPushedThenJoin ==
  IF aidx < Len(sbuild_archs)
    THEN StartArch(aidx + 1) /\ idx' = idx
    ELSE pc' = "join" /\ idx' = idx /\ aidx' = 1 /\ entry' = entry

\* ------------------------------------------------ Pkg::sbuild_thread
\* pkg.rs 343-346, main.rs 52-53: the handle is pushed; next architecture,
\* or Ok(threads) and the next package
ThreadPushed ==
  IF aidx < Len(sbuild_archs)
    THEN StartArch(aidx + 1) /\ idx' = idx
    ELSE pc' = "loop" /\ idx' = idx + 1 /\ aidx' = 1 /\ entry' = entry

\* SbuildCheckComplete that rebuilds a complete stage whatever config.rebuild
SbuildCheckCompleteAlways ==
  /\ pc = "sb_complete"
  /\ disk' = SetDir(cur, curArch, "complete", Absent)
  /\ pc' = "sb_partial"
  /\ UNCHANGED <<run, args, err, idx, aidx, pidx, config, share, thr, result,
                 debs, pool, ran, entry, art, prev>>
  /\ UNCHANGED <<vlist, vi, vmax, vstat, nonzero>>

\* SbuildCheckComplete that with rebuild goes on without removing complete_dir
SbuildCheckCompleteKeep ==
  /\ pc = "sb_complete"
  /\ IF disk[cur][curArch].complete.exists /\ ~ config.rebuild
       THEN /\ disk' = disk
            /\ thr' = [thr EXCEPT ![cur][curArch] = "finished"]
            /\ result' = Returned(cur, curArch, "Ok")
            /\ ThreadPushed
       ELSE /\ pc' = "sb_partial"
            /\ UNCHANGED <<disk, thr, result, idx, aidx, entry>>
  /\ UNCHANGED <<run, args, err, pidx, config, share, debs, pool, ran, art,
                 prev>>
  /\ UNCHANGED <<vlist, vi, vmax, vstat, nonzero>>

\* pkg.rs 197-207
SbuildCheckComplete ==
  /\ pc = "sb_complete"
  /\ IF disk[cur][curArch].complete.exists
       THEN IF config.rebuild
              THEN /\ disk' = SetDir(cur, curArch, "complete", Absent)
                   /\ pc' = "sb_partial"
                   /\ UNCHANGED <<thr, result, idx, aidx, entry>>
              ELSE /\ disk' = disk
                   /\ thr' = [thr EXCEPT ![cur][curArch] = "finished"]
                   /\ result' = Returned(cur, curArch, "Ok")
                   /\ ThreadPushed
       ELSE /\ pc' = "sb_partial"
            /\ UNCHANGED <<disk, thr, result, idx, aidx, entry>>
  /\ UNCHANGED <<run, args, err, pidx, config, share, debs, pool, ran, art,
                 prev>>
  /\ UNCHANGED <<vlist, vi, vmax, vstat, nonzero>>

\* SbuildCheckPartial that, on retry, goes on in the directory it found
SbuildCheckPartialReuse ==
  /\ pc = "sb_partial"
  /\ IF disk[cur][curArch].partial.exists
       THEN IF config.retry
              THEN /\ disk' = disk
                   /\ pc' = "sb_spawn"
                   /\ UNCHANGED <<thr, result, idx, aidx, entry>>
              ELSE /\ disk' = disk
                   /\ thr' = [thr EXCEPT ![cur][curArch] = "finished"]
                   /\ result' = Returned(cur, curArch, "AlreadyExists")
                   /\ ThreadPushed
       ELSE /\ pc' = "sb_create"
            /\ UNCHANGED <<disk, thr, result, idx, aidx, entry>>
  /\ UNCHANGED <<run, args, err, pidx, config, share, debs, pool, ran, art,
                 prev>>
  /\ UNCHANGED <<vlist, vi, vmax, vstat, nonzero>>

\* pkg.rs 209-224
SbuildCheckPartial ==
  /\ pc = "sb_partial"
  /\ IF disk[cur][curArch].partial.exists
       THEN IF config.retry
              THEN /\ disk' = SetDir(cur, curArch, "partial", Absent)
                   /\ pc' = "sb_create"
                   /\ UNCHANGED <<thr, result, idx, aidx, entry>>
              ELSE /\ disk' = disk
                   /\ thr' = [thr EXCEPT ![cur][curArch] = "finished"]
                   /\ result' = Returned(cur, curArch, "AlreadyExists")
                   /\ ThreadPushed
       ELSE /\ pc' = "sb_create"
            /\ UNCHANGED <<disk, thr, result, idx, aidx, entry>>
  /\ UNCHANGED <<run, args, err, pidx, config, share, debs, pool, ran, art,
                 prev>>
  /\ UNCHANGED <<vlist, vi, vmax, vstat, nonzero>>

\* pkg.rs 226-244: create_dir(sbuild-<arch>.partial), write sbuild.conf
SbuildCreate ==
  /\ pc = "sb_create"
  /\ IF disk[cur][curArch].partial.exists
       THEN Fail("AlreadyExists") /\ disk' = disk
       ELSE /\ disk' = SetDir(cur, curArch, "partial",
                              WithFiles(NewDir(run), {"sbuild.conf"}))
            /\ pc' = "sb_spawn" /\ err' = err
  /\ UNCHANGED <<run, args, idx, aidx, pidx, config, share, thr, result,
                 debs, pool, ran, entry, art, prev>>
  /\ UNCHANGED <<vlist, vi, vmax, vstat, nonzero>>

\* pkg.rs 246-264: the command is built and the worker thread spawned
SbuildSpawn ==
  /\ pc = "sb_spawn"
  /\ thr' = [thr EXCEPT ![cur][curArch] = "sbuild"]
  /\ ThreadPushed
  /\ UNCHANGED <<run, args, err, pidx, config, disk, share, result, debs,
                 pool, ran, art, prev>>
  /\ UNCHANGED <<vlist, vi, vmax, vstat, nonzero>>

\* WorkerSbuild without `.and_then(status_err)?`: a failed sbuild is committed
WorkerSbuildNoStatus(p, a) ==
  /\ pc # "idle" /\ thr[p][a] = "sbuild"
  /\ ran' = Ran(p, SbuildCmds(a)[1])
  /\ \E ok \in BOOLEAN :
       /\ nonzero' = NonZero(p, SbuildCmds(a)[1], ok)
       /\ disk' = IF ok
                    THEN SetDir(p, a, "partial",
                      WithFiles(Succeeded(disk[p][a].partial,
                                          SbuildCmds(a)[1]),
                                SbuildOutputs(a)))
                    ELSE disk
  /\ thr' = [thr EXCEPT ![p][a] = "rename"]
  /\ UNCHANGED <<run, args, pc, err, idx, aidx, pidx, config, share, debs,
                 pool, entry, art, prev, result>>
  /\ UNCHANGED vver

\* WorkerSbuild that runs sbuild again when it failed
WorkerSbuildRetry(p, a) ==
  /\ pc # "idle" /\ thr[p][a] = "sbuild"
  /\ ran' = Ran(p, SbuildCmds(a)[1])
  /\ \E ok \in BOOLEAN :
       /\ nonzero' = NonZero(p, SbuildCmds(a)[1], ok)
       /\ IF ok
            THEN /\ disk' = SetDir(p, a, "partial",
                      WithFiles(Succeeded(disk[p][a].partial,
                                          SbuildCmds(a)[1]),
                                SbuildOutputs(a)))
                 /\ thr' = [thr EXCEPT ![p][a] = "rename"]
            ELSE /\ disk' = disk
                 /\ thr' = thr
  /\ UNCHANGED <<run, args, pc, err, idx, aidx, pidx, config, share, debs,
                 pool, entry, art, prev, result>>
  /\ UNCHANGED vver

\* pkg.rs 265-267: the worker waits for sbuild and maps its status
WorkerSbuild(p, a) ==
  /\ pc # "idle" /\ thr[p][a] = "sbuild"
  /\ ran' = Ran(p, SbuildCmds(a)[1])
  /\ \E ok \in BOOLEAN :
       /\ nonzero' = NonZero(p, SbuildCmds(a)[1], ok)
       /\ IF ok
            THEN /\ disk' = SetDir(p, a, "partial",
                      WithFiles(Succeeded(disk[p][a].partial,
                                          SbuildCmds(a)[1]),
                                SbuildOutputs(a)))
                 /\ thr' = [thr EXCEPT ![p][a] = "rename"]
                 /\ result' = result
            ELSE /\ disk' = disk
                 /\ thr' = [thr EXCEPT ![p][a] = "finished"]
                 /\ result' = Returned(p, a, "CommandFailed")
  /\ UNCHANGED <<run, args, pc, err, idx, aidx, pidx, config, share, debs,
                 pool, entry, art, prev>>
  /\ UNCHANGED vver

\* WorkerRename with one sbuild directory for all architectures of a package
WorkerRenameShared(p, a) ==
  /\ pc # "idle" /\ thr[p][a] = "rename"
  /\ disk' = RenameStage(p, sbuild_archs[1])
  /\ thr' = [thr EXCEPT ![p][a] = "finished"]
  /\ result' = Returned(p, a, "Ok")
  /\ UNCHANGED <<run, args, pc, err, idx, aidx, pidx, config, share, debs,
                 pool, ran, entry, art, prev>>
  /\ UNCHANGED <<vlist, vi, vmax, vstat, nonzero>>

\* pkg.rs 269-271: the worker commits the stage and returns Ok(complete_dir)
WorkerRename(p, a) ==
  /\ pc # "idle" /\ thr[p][a] = "rename"
  /\ disk' = RenameStage(p, a)
  /\ thr' = [thr EXCEPT ![p][a] = "finished"]
  /\ result' = Returned(p, a, "Ok")
  /\ UNCHANGED <<run, args, pc, err, idx, aidx, pidx, config, share, debs,
                 pool, ran, entry, art, prev>>
  /\ UNCHANGED <<vlist, vi, vmax, vstat, nonzero>>

\* ------------------------------------------- fn build, second loop
\* main.rs 55-57: head of the collect loop; packages without threads pass
JoinLoop ==
  /\ pc = "join"
  /\ IF idx > Len(PkgList)
       THEN pc' = "publish" /\ UNCHANGED <<idx, aidx, debs>>
       ELSE IF \A a \in Archs : thr[cur][a] = "none"
              THEN pc' = pc /\ idx' = idx + 1 /\ UNCHANGED <<aidx, debs>>
              ELSE pc' = "join_thread" /\ aidx' = 1 /\ debs' = <<>>
                   /\ idx' = idx
  /\ UNCHANGED <<run, args, err, pidx, config, disk, share, thr, result,
                 pool, ran, entry, art, prev>>
  /\ UNCHANGED <<vlist, vi, vmax, vstat, nonzero>>

\* JoinThread that leaves the loop over the threads after the first one
JoinThreadFirstOnly ==
  /\ pc = "join_thread"
  /\ thr[cur][curArch] = "finished"
  /\ thr' = [thr EXCEPT ![cur][curArch] = "joined"]
  /\ IF result[cur][curArch] = "Ok"
       THEN /\ debs' = debs \o DebPaths(curArch, disk[cur][curArch].complete)
            /\ art' = [art EXCEPT ![cur][curArch] =
                         DebNames(disk[cur][curArch].complete)]
       ELSE /\ debs' = debs
            /\ art' = [art EXCEPT ![cur][curArch] = Failed]
  /\ aidx' = 1 /\ pc' = "link"
  /\ UNCHANGED <<run, args, err, idx, pidx, config, disk, share, result,
                 pool, ran, entry, prev>>
  /\ UNCHANGED <<vlist, vi, vmax, vstat, nonzero>>

\* JoinThread that gives up what it collected when a worker returned Err
JoinThreadDropOnErr ==
  /\ pc = "join_thread"
  /\ thr[cur][curArch] = "finished"
  /\ thr' = [thr EXCEPT ![cur][curArch] = "joined"]
  /\ IF result[cur][curArch] = "Ok"
       THEN /\ debs' = debs \o DebPaths(curArch, disk[cur][curArch].complete)
            /\ art' = [art EXCEPT ![cur][curArch] =
                         DebNames(disk[cur][curArch].complete)]
       ELSE /\ debs' = <<>>
            /\ art' = [art EXCEPT ![cur][curArch] = Failed]
  /\ IF aidx < Len(sbuild_archs)
       THEN aidx' = aidx + 1 /\ pc' = pc
       ELSE aidx' = 1 /\ pc' = "link"
  /\ UNCHANGED <<run, args, err, idx, pidx, config, disk, share, result,
                 pool, ran, entry, prev>>
  /\ UNCHANGED <<vlist, vi, vmax, vstat, nonzero>>

\* main.rs 58-70: join one worker; Ok(dir) adds the .deb entries of dir
JoinThread ==
  /\ pc = "join_thread"
  /\ thr[cur][curArch] = "finished"
  /\ thr' = [thr EXCEPT ![cur][curArch] = "joined"]
  /\ IF result[cur][curArch] = "Ok"
       THEN /\ debs' = debs \o DebPaths(curArch, disk[cur][curArch].complete)
            /\ art' = [art EXCEPT ![cur][curArch] =
                         DebNames(disk[cur][curArch].complete)]
       ELSE /\ debs' = debs
            /\ art' = [art EXCEPT ![cur][curArch] = Failed]
  /\ IF aidx < Len(sbuild_archs)
       THEN aidx' = aidx + 1 /\ pc' = pc
       ELSE aidx' = 1 /\ pc' = "link"
  /\ UNCHANGED <<run, args, err, idx, pidx, config, disk, share, result,
                 pool, ran, entry, prev>>
  /\ UNCHANGED <<vlist, vi, vmax, vstat, nonzero>>

HasName(links, n) == \E l \in links : l.name = n

\* LinkDeb without the is_file test: hard_link fails on a name that exists
LinkDebNoTest ==
  /\ pc = "link"
  /\ IF debs = <<>>
       THEN pc' = "join" /\ idx' = idx + 1 /\ UNCHANGED <<debs, pool, err>>
       ELSE IF HasName(pool[cur], Head(debs).name)
              THEN Fail("AlreadyExists") /\ UNCHANGED <<debs, pool, idx>>
              ELSE /\ pool' = [pool EXCEPT ![cur] = @ \cup {Head(debs)}]
                   /\ debs' = Tail(debs)
                   /\ UNCHANGED <<pc, idx, err>>
  /\ UNCHANGED <<run, args, aidx, pidx, config, disk, share, thr,
                 result, ran, entry, art, prev>>
  /\ UNCHANGED <<vlist, vi, vmax, vstat, nonzero>>

\* main.rs 72-79: one iteration of the link loop, or its end
LinkDeb ==
  /\ pc = "link"
  /\ IF debs = <<>>
       THEN pc' = "join" /\ idx' = idx + 1 /\ UNCHANGED <<debs, pool>>
       ELSE /\ pool' = IF HasName(pool[cur], Head(debs).name)
                         THEN pool
                         ELSE [pool EXCEPT ![cur] = @ \cup {Head(debs)}]
            /\ debs' = Tail(debs)
            /\ UNCHANGED <<pc, idx>>
  /\ UNCHANGED <<run, args, err, aidx, pidx, config, disk, share, thr,
                 result, ran, entry, art, prev>>
  /\ UNCHANGED <<vlist, vi, vmax, vstat, nonzero>>

\* main.rs 83-end of fn build: the repository indices (apt-ftparchive, gzip)
Publish ==
  /\ pc = "publish"
  /\ \E ok \in BOOLEAN :
       IF ok THEN pc' = "ok" /\ err' = err ELSE Fail("CommandFailed")
  /\ UNCHANGED <<run, args, idx, aidx, pidx, config, disk, share, thr,
                 result, debs, pool, ran, entry, art, prev>>
  /\ UNCHANGED <<vlist, vi, vmax, vstat, nonzero>>

\* main.rs 335-341: pop_opt returned; the process ends (exit(1) on Err)
Exit ==
  /\ pc \in {"ok", "failed"}
  /\ pc' = "idle"
  /\ Forget
  /\ UNCHANGED <<run, args, err, disk, share, result, pool, ran, entry, art,
                 prev>>
  /\ UNCHANGED nonzero

\* ---------------------------------------------------------- the kill
\* the process is killed (SIGKILL, power loss) at any position.  A kill that
\* lands inside the remove_dir_all of ensure_dir_clean (main.rs 32) leaves part
\* of the pool.  With rebuild and retry false no other removal can be hit.
Interrupt ==
  /\ pc # "idle"
  /\ pc' = "idle" /\ err' = "Killed"
  /\ Forget
  /\ \/ UNCHANGED <<disk, pool>>
     \/ /\ pc = "clean"
        /\ \E q \in Pkgs : \E keep \in SUBSET pool[q] :
             pool' = [pool EXCEPT ![q] = keep]
        /\ disk' = disk
  /\ UNCHANGED <<run, args, share, result, ran, entry, art, prev>>
  /\ UNCHANGED nonzero

\* ------------------------------------------------------ specifications
Pipeline ==
  \/ CleanRepo \/ LaunchLoop \/ PkgShowsrc \/ VersionCompare
  \/ SourceCheckComplete \/ SourceCheckPartial \/ SourceCreate
  \/ SourceFetch \/ SourceExtract \/ SourceCopy \/ SourcePatch
  \/ SourceChangelog \/ SourceDscBuild \/ SourceRename \/ SourceVerify
  \/ SbuildCheckComplete \/ SbuildCheckPartial \/ SbuildCreate
  \/ SbuildSpawn
  \/ \E p \in Pkgs, a \in Archs : WorkerSbuild(p, a)
  \/ \E p \in Pkgs, a \in Archs : WorkerRename(p, a)
  \/ JoinLoop \/ JoinThread \/ LinkDeb \/ Publish \/ Exit

\* the program: Pkg::build always passes rebuild: false, retry: false
Next == Pipeline \/ StartRun \/ PkgConfig \/ Interrupt
Spec == Init /\ [][Next]_vars

\* the stage functions under every value of Config.rebuild and Config.retry,
\* in runs that are given one package and are not killed
NextPolicy == Pipeline \/ StartOne \/ PkgConfigAny
SpecPolicy == Init /\ [][NextPolicy]_vars

\* Pkg::build of the first package from the version loop on (pkg.rs 311-324),
\* on any list of Version fields
InitVersion ==
  /\ run = 1
  /\ args = {PkgList[1]}
  /\ pc = "version"
  /\ err = "none"
  /\ idx = 1
  /\ aidx = 1
  /\ pidx = 1
  /\ config = NoConfig
  /\ disk = Reset2(Stages, NoStage)
  /\ share = [p \in Pkgs |-> FALSE]
  /\ thr = Reset2(Archs, "none")
  /\ result = Reset2(Stages, "none")
  /\ debs = <<>>
  /\ pool = [p \in Pkgs |-> {}]
  /\ ran = [p \in Pkgs |-> [c \in AllCmds |-> 0]]
  /\ entry = Reset2(Stages, NoEntry)
  /\ art = Reset2(Archs, NotJoined)
  /\ prev = NoPrev
  /\ vlist \in VersionLists
  /\ vi = 1
  /\ vmax = 1
  /\ vstat = <<>>
  /\ nonzero = [p \in Pkgs |-> [c \in AllCmds |-> 0]]

NextVersion == VersionCompare
SpecVersion == InitVersion /\ [][NextVersion]_vars

\* the link loop of fn build (main.rs 71-79) for the first package, on sbuild
\* directories that hold any .deb names and on any content of the package's
\* pool directory
DebFiles == {f \in Range(FileOrder) : IsDeb(f)}
SbuildDirWith(a, fs) == [exists |-> TRUE, gen |-> 1,
                         exec |-> <<SbuildCmds(a)[1]>>,
                         files |-> fs \cup {"sbuild.conf", "changes"}]
PoolChoices == {S \in SUBSET [arch : Archs, name : DebFiles, gen : {1}] :
                  \A l, m \in S : l.name = m.name => l = m}
InitPool ==
  /\ run = 1
  /\ args = {PkgList[1]}
  /\ pc = "link"
  /\ err = "none"
  /\ idx = 1
  /\ aidx = 1
  /\ pidx = 1
  /\ config = NoConfig
  /\ \E f \in [Archs -> SUBSET DebFiles] :
       /\ disk = [p \in Pkgs |-> [s \in Stages |->
                    IF p = PkgList[1] /\ s \in Archs
                      THEN [partial |-> Absent,
                            complete |-> SbuildDirWith(s, f[s])]
                      ELSE NoStage]]
       /\ art = [p \in Pkgs |-> [a \in Archs |->
                   IF p = PkgList[1] THEN f[a] ELSE NotJoined]]
       /\ debs = DebPaths(sbuild_archs[1], SbuildDirWith(sbuild_archs[1],
                                                         f[sbuild_archs[1]]))
                 \o DebPaths(sbuild_archs[2], SbuildDirWith(sbuild_archs[2],
                                                            f[sbuild_archs[2]]))
  /\ share = [p \in Pkgs |-> FALSE]
  /\ thr = [p \in Pkgs |-> [a \in Archs |->
              IF p = PkgList[1] THEN "joined" ELSE "none"]]
  /\ result = [p \in Pkgs |-> [s \in Stages |->
                 IF p = PkgList[1] /\ s \in Archs THEN "Ok" ELSE "none"]]
  /\ \E links \in PoolChoices :
       pool = [p \in Pkgs |-> IF p = PkgList[1] THEN links ELSE {}]
  /\ ran = [p \in Pkgs |-> [c \in AllCmds |-> 0]]
  /\ entry = Reset2(Stages, NoEntry)
  /\ prev = NoPrev
  /\ vlist = <<>>
  /\ vi = 1
  /\ vmax = 1
  /\ vstat = <<>>
  /\ nonzero = [p \in Pkgs |-> [c \in AllCmds |-> 0]]

NextPool == LinkDeb
SpecPool == InitPool /\ [][NextPool]_vars

\* ============================================================== claims
Complete(p, s) == disk[p][s].complete
Partial(p, s) == disk[p][s].partial
BuildCmds == AllCmds \ {Cmd("showsrc", 0), Cmd("compare", 0)}

\* C1: a canonical stage directory exists only if every external command of
\* the stage's execution exited with success before the rename, in every
\* reachable state, also after failures and kills; and a canonical directory
\* appears only by the rename of the stage's partial directory.
C1_CommitPoint ==
  /\ [](\A p \in Pkgs, s \in Stages :
          Complete(p, s).exists => Complete(p, s).exec = StageCmds(p, s))
  /\ [][\A p \in Pkgs, s \in Stages :
          (~ Complete(p, s).exists /\ Complete(p, s)'.exists)
            => /\ Partial(p, s).exists
               /\ Partial(p, s).exec = StageCmds(p, s)
               /\ Complete(p, s)' = Partial(p, s)
               /\ ~ Partial(p, s)'.exists]_vars

\* a killed run left one stage committed and another one partial
C1_Witness ==
  /\ err = "Killed"
  /\ \E p \in Pkgs, a \in Archs :
       /\ Complete(p, a).exists
       /\ \E b \in Archs : Partial(p, b).exists /\ Partial(p, b).exec = <<>>

\* C2: a run that follows, with the same args, a run which collected Ok from
\* every worker runs no source-preparation command and no sbuild, and what
\* it collects from a worker is what the previous run collected from it;
\* at the end of its collect loop it has collected every worker.
C2_IdempotentRerun ==
  (prev.ok /\ prev.args = args) =>
     /\ \A p \in Pkgs, c \in BuildCmds : ran[p][c] = 0
     /\ \A p \in Pkgs, a \in Archs :
          art[p][a] # NotJoined => art[p][a] = prev.art[p][a]
     /\ pc \in {"publish", "ok"} => art = prev.art

\* the second run has ended with success after a complete first run
C2_Witness ==
  /\ prev.ok /\ prev.args = args /\ args = {}
  /\ pc = "ok"
  /\ \A p \in Pkgs : art[p]["amd64"] = {"amd64.deb", "all.deb"}

\* the driver is inside the stage function of (p, s), before the point where
\* the stage's directories have been examined
Examining(p, s) ==
  /\ idx <= Len(PkgList) /\ cur = p
  /\ IF s = "source" THEN pc \in {"src_complete", "src_partial"}
     ELSE curArch = s /\ pc \in {"sb_complete", "sb_partial"}
NoCmdRan(p, s) == \A c \in Range(StageCmds(p, s)) : ran[p][c] = 0

\* C3: a stage invoked with retry = false while its partial directory exists
\* fails with AlreadyExists (unless the process is killed inside the two
\* tests), runs none of its commands and leaves the partial directory as it
\* was (and creates no canonical directory).
C3_RefusePartial ==
  \A p \in Pkgs, s \in Stages :
    (entry[p][s].called /\ entry[p][s].partial.exists /\ ~ entry[p][s].retry)
      => /\ Partial(p, s) = entry[p][s].partial
         /\ ~ Complete(p, s).exists
         /\ NoCmdRan(p, s)
         /\ result[p][s] \in {"none", "AlreadyExists"}
         /\ result[p][s] = "none" => (Examining(p, s) \/ err = "Killed")

\* a worker refused a partial directory that a failed sbuild had left, and
\* the driver joined it
C3_Witness ==
  \E p \in Pkgs, a \in Archs :
    /\ entry[p][a].called /\ entry[p][a].partial.exists /\ ~ entry[p][a].retry
    /\ "sbuild.conf" \in Partial(p, a).files
    /\ result[p][a] = "AlreadyExists"
    /\ thr[p][a] = "joined"

PkgIndex(p) == CHOOSE i \in 1..Len(PkgList) : PkgList[i] = p
\* the driver has ended the link loop of p in this run
Aggregated(p) ==
  /\ \A a \in Archs : thr[p][a] = "joined"
  /\ \/ pc \in {"publish", "ok"}
     \/ pc \in {"join", "join_thread", "link"} /\ idx > PkgIndex(p)

\* C4: a worker's result is decided by its own stage alone: Err only when its
\* own sbuild failed or its own partial directory was in the way; the step
\* that ends a worker changes nothing of its siblings; and once the driver
\* has aggregated a package, every .deb of every worker that returned Ok is
\* linked in the pool, whatever the siblings returned.
C4_IndependentWorkers ==
  /\ [](\A p \in Pkgs, a \in Archs :
          /\ result[p][a] = "CommandFailed"
               => /\ ran[p][SbuildCmds(a)[1]] = 1
                  /\ Partial(p, a).exists /\ Partial(p, a).exec = <<>>
          /\ result[p][a] = "AlreadyExists" => entry[p][a].partial.exists
          /\ result[p][a] = "Ok" => Complete(p, a).exists
          /\ (thr[p][a] = "joined" /\ result[p][a] = "Ok")
               => art[p][a] = DebNames(Complete(p, a))
          /\ (Aggregated(p) /\ result[p][a] = "Ok")
               => \A f \in DebNames(Complete(p, a)) :
                    [arch |-> a, name |-> f, gen |-> Complete(p, a).gen]
                      \in pool[p])
  /\ [][\A p \in Pkgs, a \in Archs :
          (thr[p][a] \in {"sbuild", "rename"} /\ thr[p][a]' # thr[p][a]
             /\ pc' # "idle")
            => \A b \in Archs \ {a} :
                 /\ thr[p][b]' = thr[p][b]
                 /\ result[p][b]' = result[p][b]
                 /\ disk[p][b]' = disk[p][b]]_vars

\* i386 failed, amd64 succeeded, and amd64's packages are in the pool
C4_Witness ==
  \E p \in Pkgs :
    /\ result[p]["i386"] = "CommandFailed"
    /\ result[p]["amd64"] = "Ok"
    /\ Aggregated(p)
    /\ HasName(pool[p], "amd64.deb") /\ HasName(pool[p], "all.deb")

\* the driver returned with the error of the package it was launching
PkgFailed(p) == pc = "failed" /\ idx <= Len(PkgList) /\ cur = p

\* C5: when a package fails at package level (its version query or its source
\* preparation returns an error), fn build does not return before every other
\* selected package has been resolved.
C5_DriverContinues ==
  \A p \in Pkgs :
    PkgFailed(p) =>
      \A q \in Pkgs \ {p} : Selected(args, q) => ran[q][Cmd("showsrc", 0)] > 0

Unjoined(p) == \E a \in Archs : thr[p][a] \in {"sbuild", "rename", "finished"}
NewLink(p) == ~ (pool[p]' \subseteq pool[p])

\* C6 as stated: no link is created in the pool while a worker of any package
\* has not been joined.
C6_BarrierAllPackages ==
  [][\A p \in Pkgs : NewLink(p) => \A q \in Pkgs : ~ Unjoined(q)]_vars

\* C6 amended: a link for a package is created only in the link loop of that
\* package, after the launch loop has ended (every selected package has its
\* workers spawned) and after every worker of that package has been joined
\* and every worker of the packages before it.
C6_BarrierPerPackage ==
  [][\A p \in Pkgs : NewLink(p) =>
        /\ pc = "link" /\ cur = p
        /\ \A q \in Pkgs, a \in Archs :
             Selected(args, q) => thr[q][a] # "none"
        /\ \A q \in Pkgs :
             PkgIndex(q) <= PkgIndex(p) => ~ Unjoined(q)]_vars

\* the first package is linked while a worker of the second has not ended
C6_Witness ==
  /\ pool[PkgList[1]] # {}
  /\ thr[PkgList[2]]["amd64"] = "sbuild"
  /\ pc = "link"

\* the source stage of p is committed with its re-versioned control file
SourceCommitted(p) ==
  /\ Complete(p, "source").exists
  /\ "dsc" \in Complete(p, "source").files
  /\ result[p]["source"] = "Ok"
InSbuildThread(p) ==
  /\ idx <= Len(PkgList) /\ cur = p
  /\ pc \in {"sb_complete", "sb_partial", "sb_create", "sb_spawn"}

\* C7: sbuild_thread is entered, a worker exists and an sbuild directory of a
\* package changes only while the package's source stage is committed with
\* its .dsc; when Pkg::source returned an error, sbuild_thread is not called
\* and no worker of the package exists.
C7_SourceBeforeWorkers ==
  /\ [](\A p \in Pkgs :
          /\ (\/ InSbuildThread(p)
              \/ \E a \in Archs : thr[p][a] # "none" \/ entry[p][a].called)
               => SourceCommitted(p)
          /\ result[p]["source"] \notin {"none", "Ok"}
               => \A a \in Archs : thr[p][a] = "none" /\ ~ entry[p][a].called)
  /\ [][\A p \in Pkgs, a \in Archs :
          disk[p][a]' # disk[p][a] => SourceCommitted(p)]_vars

\* the first package's workers run; the second package's source preparation
\* failed and it has no worker
C7_Witness ==
  /\ thr[PkgList[1]]["amd64"] = "sbuild"
  /\ result[PkgList[2]]["source"] = "CommandFailed"
  /\ Partial(PkgList[2], "source").exists
  /\ \A a \in Archs : thr[PkgList[2]][a] = "none"

IsPrefix(x, y) == Len(x) <= Len(y) /\ x = SubSeq(y, 1, Len(x))
Errors == {"AlreadyExists", "NotFound", "CommandFailed"}

\* a directory made by the execution of the stage in this run, from nothing
Fresh(p, s, d) == d.gen = run /\ IsPrefix(d.exec, StageCmds(p, s))
\* the commands of the stage that ran in this run are those the directory
\* records, and at most the one that failed after them
RanFromStart(p, s, d) ==
  \A i \in 1..Len(StageCmds(p, s)) :
    /\ i <= Len(d.exec) => ran[p][StageCmds(p, s)[i]] = 1
    /\ i > Len(d.exec) + 1 => ran[p][StageCmds(p, s)[i]] = 0

\* C8: a stage invoked with retry = true while its partial directory exists
\* does not refuse; once the two tests are passed the old partial directory
\* is gone, a partial directory that exists was created in this run and
\* holds the work of this run from its first command on, and a canonical
\* directory that exists is the rename of that fresh directory with every
\* command succeeded.
C8_RetryDiscardsPartial ==
  \A p \in Pkgs, s \in Stages :
    (entry[p][s].called /\ entry[p][s].retry /\ entry[p][s].partial.exists)
      => /\ result[p][s] # "AlreadyExists"
         /\ ~ Examining(p, s) =>
              /\ Partial(p, s) # entry[p][s].partial
              /\ Partial(p, s).exists =>
                   Fresh(p, s, Partial(p, s)) /\ RanFromStart(p, s, Partial(p, s))
              /\ Complete(p, s).exists =>
                   /\ Fresh(p, s, Complete(p, s))
                   /\ Complete(p, s).exec = StageCmds(p, s)
                   /\ RanFromStart(p, s, Complete(p, s))
                   /\ ~ Partial(p, s).exists
              /\ result[p][s] = "Ok" => Complete(p, s).exists

\* a source stage that had failed after some commands was retried and
\* committed
C8_Witness ==
  \E p \in Pkgs :
    /\ entry[p]["source"].called /\ entry[p]["source"].retry
    /\ entry[p]["source"].partial.exists
    /\ Len(entry[p]["source"].partial.exec) > 1
    /\ result[p]["source"] = "Ok"
    /\ Complete(p, "source").gen = run
    /\ Len(patches(p)) > 0

\* C9: a stage invoked with rebuild = true while its canonical directory
\* exists removes it and restarts as from Absent, whatever retry is: past
\* the two tests the old canonical directory is gone, a directory of the
\* stage that exists was made in this run by work started from the first
\* command, and the stage returns Ok only with a canonical directory that
\* is the rename of this run's partial directory.
C9_RebuildDiscardsComplete ==
  \A p \in Pkgs, s \in Stages :
    (entry[p][s].called /\ entry[p][s].rebuild /\ entry[p][s].complete.exists)
      => /\ result[p][s] # "AlreadyExists"
         /\ ~ Examining(p, s) =>
              /\ Complete(p, s) # entry[p][s].complete
              /\ Partial(p, s).exists =>
                   Fresh(p, s, Partial(p, s)) /\ RanFromStart(p, s, Partial(p, s))
              /\ Complete(p, s).exists =>
                   /\ Fresh(p, s, Complete(p, s))
                   /\ Complete(p, s).exec = StageCmds(p, s)
                   /\ RanFromStart(p, s, Complete(p, s))
                   /\ ~ Partial(p, s).exists
              /\ result[p][s] = "Ok" => Complete(p, s).exists

\* with retry = false, the source stage and an sbuild stage of a package were
\* both rebuilt and committed again in one run
C9_Witness ==
  /\ \E p \in Pkgs, a \in Archs :
       /\ entry[p][a].called /\ entry[p][a].rebuild /\ ~ entry[p][a].retry
       /\ entry[p][a].complete.exists /\ entry[p][a].complete.gen < run
       /\ result[p][a] = "Ok" /\ Complete(p, a).gen = run
       /\ entry[p]["source"].complete.exists
       /\ Complete(p, "source").gen = run

Unchanged(p, s) ==
  /\ Partial(p, s) = entry[p][s].partial
  /\ Complete(p, s) = entry[p][s].complete
CacheHit(p, s) ==
  entry[p][s].called /\ entry[p][s].complete.exists /\ ~ entry[p][s].rebuild

\* C10 as stated: every stage invoked with rebuild = false while its canonical
\* directory exists returns Ok, runs none of its commands and leaves its
\* directories as they were.
C10_CachedAlwaysOk ==
  \A p \in Pkgs, s \in Stages :
    CacheHit(p, s)
      => /\ Unchanged(p, s)
         /\ NoCmdRan(p, s)
         /\ result[p][s] \in {"none", "Ok"}
         /\ result[p][s] = "none" => (Examining(p, s) \/ err = "Killed")

\* what Pkg::source returns for a canonical directory: the .dsc must be there
CachedResult(p, s) ==
  IF s = "source" /\ "dsc" \notin entry[p][s].complete.files
    THEN "NotFound" ELSE "Ok"

\* C10 amended: such a stage runs none of its commands and leaves its
\* directories as they were; an sbuild stage returns Ok; the source stage
\* returns Ok when the canonical directory holds the re-versioned .dsc and
\* fails with NotFound when it does not.
C10_CachedOrNotFound ==
  \A p \in Pkgs, s \in Stages :
    CacheHit(p, s)
      => /\ Unchanged(p, s)
         /\ NoCmdRan(p, s)
         /\ result[p][s] \in {"none", CachedResult(p, s)}
         /\ result[p][s] = "none" => (Examining(p, s) \/ err = "Killed")

\* with retry = true and rebuild = false, the source stage and both sbuild
\* stages of a package were served from their canonical directories
C10_Witness ==
  \E p \in Pkgs :
    /\ \A s \in Stages : CacheHit(p, s) /\ entry[p][s].retry
                         /\ result[p][s] = "Ok"
    /\ \A a \in Archs : thr[p][a] = "joined"

\* C11: when an external command of a stage exits non-zero, the step that
\* returns the error leaves the partial directory as it is, the partial
\* directory stays and no complete directory appears for the rest of the run,
\* and the error reaches the caller (the driver fails with it, or the worker's
\* join yields it); a run that finds a partial directory left behind refuses
\* the stage with AlreadyExists, runs none of its commands and leaves it alone.
ErrorReturned(p, s) ==
  IF s = "source"
    THEN pc \in {"failed", "idle"} /\ err \in {"CommandFailed", "Killed"}
    ELSE /\ thr[p][s] \in {"finished", "joined", "none"}
         /\ thr[p][s] = "joined" => art[p][s] = Failed
         /\ thr[p][s] = "none" => pc = "idle"
C11_FailureKeepsPartial ==
  /\ [](\A p \in Pkgs, s \in Stages :
          /\ result[p][s] = "CommandFailed" =>
               /\ Partial(p, s).exists /\ Partial(p, s).gen = run
               /\ Len(Partial(p, s).exec) < Len(StageCmds(p, s))
               /\ ~ Complete(p, s).exists
               /\ ErrorReturned(p, s)
          /\ entry[p][s].called /\ entry[p][s].partial.exists =>
               /\ result[p][s] \in {"none", "AlreadyExists"}
               /\ result[p][s] = "none" => Examining(p, s) \/ err = "Killed"
               /\ Partial(p, s) = entry[p][s].partial
               /\ NoCmdRan(p, s))
  /\ [][\A p \in Pkgs, s \in Stages :
          result'[p][s] = "CommandFailed" /\ result[p][s] # "CommandFailed"
            => /\ disk'[p][s] = disk[p][s]
               /\ \E c \in Range(StageCmds(p, s)) :
                    nonzero'[p][c] = nonzero[p][c] + 1]_vars
C11_Witness ==
  /\ run = 2
  /\ \E p \in Pkgs :
       /\ result[p]["source"] = "AlreadyExists"
       /\ pc = "failed" /\ err = "AlreadyExists"
       /\ entry[p]["source"].partial.gen = 1
       /\ Len(entry[p]["source"].partial.exec) = 3
       /\ Partial(p, "source") = entry[p]["source"].partial

\* C12: within one run sbuild is run at most once for a package and an
\* architecture: a stage that was found with a complete or a partial directory
\* is not built (its result is the cached one or the refusal), a stage whose
\* sbuild failed has no worker left that could run it again, and sbuild runs
\* only for a stage that was invoked without a complete directory.
C12_SbuildAtMostOnce ==
  \A p \in Pkgs, a \in Archs :
    LET c == SbuildCmds(a)[1]
        e == entry[p][a]
    IN  /\ ran[p][c] <= 1
        /\ ran[p][c] = 1 =>
             e.called /\ ~ e.complete.exists /\ ~ e.partial.exists
        /\ e.called /\ (e.complete.exists \/ e.partial.exists) =>
             /\ ran[p][c] = 0
             /\ thr[p][a] \notin {"sbuild", "rename"}
        /\ result[p][a] \in Errors =>
             /\ thr[p][a] \notin {"sbuild", "rename"}
             /\ ran[p][c] = (IF result[p][a] = "CommandFailed" THEN 1 ELSE 0)
C12_Witness ==
  /\ run = 2 /\ pc = "ok"
  /\ \E p, q \in Pkgs :
       /\ entry[p]["amd64"].complete.exists /\ result[p]["amd64"] = "Ok"
       /\ ran[p][SbuildCmds("amd64")[1]] = 0
       /\ result[p]["i386"] = "AlreadyExists"
       /\ ran[p][SbuildCmds("i386")[1]] = 0
       /\ result[q]["i386"] = "CommandFailed"
       /\ ran[q][SbuildCmds("i386")[1]] = 1
       /\ thr[q]["i386"] = "joined"

\* C13: when the version loop has ended and every comparison exited with
\* dpkg's answer (status 0 or 1), the resolved version is a candidate of the
\* list and no candidate of the list is greater than it in dpkg's order,
\* wherever the candidates stand in the list and whatever the byte order of
\* their strings; of "1.0-1", "1.0-2ubuntu1", "0.9-1" it is "1.0-2ubuntu1".
Resolved == pc = "config" /\ Len(vstat) = Len(vlist)
Answered == \A i \in 1..Len(vstat) : vstat[i] \in {0, 1}
TextIndex(v) == CHOOSE i \in 1..Len(VersionList) : VersionList[i] = v
Texts(l) == [i \in 1..Len(l) |-> l[i].text]
C13_ResolvesMaximum ==
  Resolved /\ Answered =>
    /\ vmax \in 1..Len(vlist)
    /\ \A i \in 1..Len(vlist) : ~ DpkgGt(vlist[i], vlist[vmax])
    /\ Texts(vlist) = <<"1.0-1", "1.0-2ubuntu1", "0.9-1">> =>
         vlist[vmax].text = "1.0-2ubuntu1"
C13_Witness ==
  /\ Resolved /\ Answered
  /\ Len(vlist) = 3
  /\ vmax = 2
  /\ DpkgGt(vlist[2], vlist[1]) /\ DpkgGt(vlist[2], vlist[3])
  /\ \E i \in 1..3 : TextIndex(vlist[i]) > TextIndex(vlist[2])

\* C14: in every source directory the patches applied are a prefix of the
\* declared list, in declared order, and the commands run are a prefix of the
\* stage's command list; no patch is applied twice in a run; a committed
\* directory has every patch; and once a patch has failed, no later patch,
\* no dch and no dpkg-source --build is run in that run, the stage returns
\* CommandFailed, and its partial directory stays, with the patches before
\* the failed one, and is not committed.
PatchCmds(p) == [i \in 1..Len(patches(p)) |-> Cmd("patch", patches(p)[i])]
Applied(d) == SelectSeq(d.exec, LAMBDA c : c.cmd = "patch")
AfterPatch(p, k) == {PatchCmds(p)[j] : j \in (k + 1)..Len(patches(p))}
                    \cup {Cmd("dch", 0), Cmd("dsc", 0)}
C14_PatchesInOrder ==
  \A p \in Pkgs :
    /\ \A d \in {Partial(p, "source"), Complete(p, "source")} :
         d.exists => /\ IsPrefix(Applied(d), PatchCmds(p))
                     /\ IsPrefix(d.exec, SourceCmds(p))
    /\ Complete(p, "source").exists =>
         Applied(Complete(p, "source")) = PatchCmds(p)
    /\ \A k \in 1..Len(patches(p)) :
         /\ ran[p][PatchCmds(p)[k]] <= 1
         /\ ran[p][PatchCmds(p)[k]] = 1 =>
              \A j \in 1..(k - 1) : ran[p][PatchCmds(p)[j]] = 1
         /\ nonzero[p][PatchCmds(p)[k]] > 0 =>
              /\ \A c \in AfterPatch(p, k) : ran[p][c] = 0
              /\ result[p]["source"] = "CommandFailed"
              /\ Partial(p, "source").exists
              /\ Applied(Partial(p, "source")) = SubSeq(PatchCmds(p), 1, k - 1)
              /\ ~ Complete(p, "source").exists
              /\ \A a \in Archs : ~ entry[p][a].called
C14_Witness ==
  \E p \in Pkgs :
    /\ Len(patches(p)) >= 2
    /\ nonzero[p][PatchCmds(p)[2]] = 1
    /\ pc = "failed" /\ err = "CommandFailed"
    /\ Applied(Partial(p, "source")) = <<PatchCmds(p)[1]>>
    /\ patches(p)[1] > patches(p)[2]

\* C15: a pool directory never holds two links of one file name; the step of
\* the link loop that meets a file name the pool directory already has
\* creates no link, raises no error and goes on with the next artifact; and
\* when the loop of a package has ended, every file name the driver collected
\* for the package has exactly one link in the package's pool directory.
NameTaken == pc = "link" /\ debs # <<>> /\ HasName(pool[cur], Head(debs).name)
Links(p, n) == {l \in pool[p] : l.name = n}
C15_PoolIdempotent ==
  /\ [](\A p \in Pkgs : \A l, m \in pool[p] : l.name = m.name => l = m)
  /\ [](\A p \in Pkgs, a \in Archs :
          pc = "join" /\ idx > PkgIndex(p)
          /\ art[p][a] \notin {NotJoined, Failed}
            => \A n \in art[p][a] : Cardinality(Links(p, n)) = 1)
  /\ [][NameTaken => /\ pool' = pool
                     /\ pc' = "link" /\ err' = err
                     /\ debs' = Tail(debs)]_vars
C15_Witness ==
  /\ pc = "join" /\ idx = 2
  /\ "all.deb" \in art[PkgList[1]]["amd64"]
  /\ "all.deb" \in art[PkgList[1]]["i386"]
  /\ Cardinality(Links(PkgList[1], "all.deb")) = 1
  /\ Cardinality(pool[PkgList[1]]) = 3

\* the step hands CommandFailed to the caller of command c of package p: the
\* worker's result for sbuild, the driver's error for the other commands
ErrorTo(p, c) ==
  IF c.cmd = "sbuild"
    THEN \E a \in Archs : /\ SbuildCmds(a)[1] = c
                          /\ result'[p][a] = "CommandFailed"
                          /\ thr'[p][a] = "finished"
    ELSE /\ pc' = "failed" /\ err' = "CommandFailed"
         /\ c \in Range(SourceCmds(p)) =>
              result'[p]["source"] = "CommandFailed"
ExitsNonZero(p, c) == nonzero'[p][c] > nonzero[p][c]

\* C16 as stated: every step in which an external command exits non-zero
\* hands CommandFailed to the command's caller.
C16_EveryNonZeroFails ==
  [][\A p \in Pkgs, c \in AllCmds : ExitsNonZero(p, c) => ErrorTo(p, c)]_vars

\* C16: every step in which an external command other than the version
\* comparison exits non-zero hands CommandFailed to the command's caller, and
\* so does a failure of the index commands; a version comparison that exits
\* non-zero raises no error, keeps the running maximum and lets the loop go
\* on; a step in which a command exits with zero raises no CommandFailed.
C16_NonZeroFailsButCompare ==
  [][/\ \A p \in Pkgs, c \in AllCmds :
          /\ ExitsNonZero(p, c) =>
               IF c = Cmd("compare", 0)
                 THEN /\ pc' \in {"version", "config"} /\ err' = err
                      /\ vmax' = vmax
                      /\ result' = result
                 ELSE ErrorTo(p, c)
          /\ ran'[p][c] > ran[p][c] /\ ~ ExitsNonZero(p, c) =>
               /\ err' = "CommandFailed" => err = "CommandFailed"
               /\ \A s \in Stages : result'[p][s] = "CommandFailed" =>
                                      result[p][s] = "CommandFailed"
     /\ pc = "publish" /\ pc' = "failed" => err' = "CommandFailed"]_vars
C16_Witness ==
  \E p \in Pkgs :
    /\ nonzero[p][Cmd("compare", 0)] = 1
    /\ result[p]["source"] = "Ok"
    /\ nonzero[p][Cmd("sbuild", 1)] = 1
    /\ result[p]["amd64"] = "CommandFailed"
    /\ pc = "publish" /\ err = "none"

\* C17: exactly one architecture of sbuild_archs, amd64, the first, has
\* --arch-all in its sbuild command and every other has --no-arch-all; every
\* sbuild directory was built by the command of its own architecture; the
\* architecture-independent package is in no directory but amd64's; and in a
\* run at most one sbuild with --arch-all runs for a package.
ArchAll(a) == SbuildCmds(a)[1].arg = 1
C17_OneArchAll ==
  /\ {a \in Archs : ArchAll(a)} = {sbuild_archs[1]}
  /\ sbuild_archs[1] = "amd64"
  /\ \A p \in Pkgs :
       /\ ran[p][Cmd("sbuild", 1)] <= 1
       /\ \A a \in Archs : \A d \in {Partial(p, a), Complete(p, a)} :
            /\ d.exists /\ d.exec # <<>> =>
                 d.exec = <<Cmd("sbuild", IF a = "amd64" THEN 1 ELSE 0)>>
            /\ "all.deb" \in d.files => a = "amd64"
            /\ d.exists /\ d.exec # <<>> /\ a = "amd64" => "all.deb" \in d.files
       /\ \A l \in pool[p] : l.name = "all.deb" => l.arch = "amd64"
C17_Witness ==
  \E p \in Pkgs :
    /\ pc = "publish"
    /\ "all.deb" \in Complete(p, "amd64").files
    /\ Complete(p, "i386").exists
    /\ "i386.deb" \in Complete(p, "i386").files
    /\ "all.deb" \notin Complete(p, "i386").files
    /\ Cardinality(Links(p, "all.deb")) = 1
    /\ ran[p][Cmd("sbuild", 1)] = 1 /\ ran[p][Cmd("sbuild", 0)] = 1

\* C18: the driver joins a worker only in the second loop of fn build, when
\* every selected package has been launched (each of its architectures has a
\* worker); while it is in the first loop a step of it is enabled whatever
\* the workers of the packages before are doing; and a state is reachable
\* (C18_Witness) in which the source stage of the second package is in
\* progress while both workers of the first package run sbuild.
Launched(p) == \A a \in Archs : thr[p][a] # "none"
LaunchPcs == {"loop", "showsrc", "version", "config", "src_complete",
              "src_partial", "src_create", "src_fetch", "src_extract",
              "src_cp", "src_patch", "src_dch", "src_dsc", "src_rename",
              "src_verify", "sb_complete", "sb_partial", "sb_create",
              "sb_spawn"}
JoinPcs == {"join", "join_thread", "link", "publish", "ok"}
LaunchStep ==
  \/ LaunchLoop \/ PkgShowsrc \/ VersionCompare \/ PkgConfig
  \/ SourceCheckComplete \/ SourceCheckPartial \/ SourceCreate
  \/ SourceFetch \/ SourceExtract \/ SourceCopy \/ SourcePatch
  \/ SourceChangelog \/ SourceDscBuild \/ SourceRename \/ SourceVerify
  \/ SbuildCheckComplete \/ SbuildCheckPartial \/ SbuildCreate
  \/ SbuildSpawn
C18_LaunchBeforeJoin ==
  /\ [](pc \in LaunchPcs =>
          /\ ENABLED LaunchStep
          /\ \A p \in Pkgs, a \in Archs : thr[p][a] # "joined")
  /\ [](pc \in JoinPcs =>
          \A q \in Pkgs : Selected(args, q) => Launched(q))
  /\ [][\A p \in Pkgs, a \in Archs :
          thr'[p][a] = "joined" /\ thr[p][a] # "joined" =>
            /\ pc = "join_thread"
            /\ \A q \in Pkgs : Selected(args, q) => Launched(q)]_vars
C18_Witness ==
  /\ idx = 2 /\ pc = "src_extract"
  /\ Partial(PkgList[2], "source").gen = run
  /\ \A a \in Archs : thr[PkgList[1]][a] = "sbuild"

\* C19: a running worker of (p, a) has the partial directory of stage
\* sbuild-a of p, made in this run, and no complete one; a step of that worker
\* changes no directory but the two of its own stage, and not the share
\* directory, the pool, or the thread or result of another worker or of a
\* source stage; and no step of the driver or of another worker changes the
\* directories of a stage whose worker is running.
Live(p, a) == thr[p][a] \in {"sbuild", "rename"}
WorkerStep(p, a) == /\ Live(p, a)
                    /\ thr'[p][a] \in {"rename", "finished"}
                    /\ thr'[p][a] # thr[p][a]
C19_WorkerOwnDirs ==
  /\ [](\A p \in Pkgs, a \in Archs :
          Live(p, a) => /\ Partial(p, a).exists /\ Partial(p, a).gen = run
                        /\ ~ Complete(p, a).exists
                        /\ Complete(p, "source").exists)
  /\ [][\A p \in Pkgs, a \in Archs :
          /\ WorkerStep(p, a) =>
               /\ \A q \in Pkgs, s \in Stages :
                    <<q, s>> # <<p, a>> =>
                      /\ disk'[q][s] = disk[q][s]
                      /\ result'[q][s] = result[q][s]
                      /\ s \in Archs => thr'[q][s] = thr[q][s]
               /\ share' = share /\ pool' = pool /\ pc' = pc
          /\ Live(p, a) /\ ~ WorkerStep(p, a) =>
               disk'[p][a] = disk[p][a]]_vars
C19_Witness ==
  /\ thr[PkgList[1]]["amd64"] = "finished"
  /\ Complete(PkgList[1], "amd64").gen = run
  /\ thr[PkgList[1]]["i386"] = "rename"
  /\ thr[PkgList[2]]["amd64"] = "sbuild"
  /\ pc = "sb_create"

\* C20 as stated: when fn build has returned (with Ok or with an error) and
\* until the process has ended, no worker that was spawned in the run is
\* still unjoined.
C20_AllJoinedAtReturn ==
  pc \in {"ok", "failed"} =>
    \A p \in Pkgs, a \in Archs : thr[p][a] \in {"none", "joined"}

\* C21: a pass of the version loop replaces the running maximum only when its
\* comparison exited with status 0, and then by the candidate just compared;
\* so the resolved version is the candidate of the last pass that exited 0,
\* or the first-listed candidate when none did, and when every comparison
\* exited with dpkg's answer it is greater than every candidate listed before
\* it: of the candidates that compare equal to the maximum the first-listed
\* one is returned.
C21_FirstListedKept ==
  /\ [](Resolved =>
          /\ vmax = 1 \/ vstat[vmax] = 0
          /\ \A i \in (vmax + 1)..Len(vlist) : vstat[i] # 0
          /\ Answered => \A i \in 1..(vmax - 1) :
                           DpkgGt(vlist[vmax], vlist[i]))
  /\ [][pc = "version" =>
          /\ vstat' = Append(vstat, vstat'[Len(vstat')])
          /\ vmax' = IF vstat'[Len(vstat')] = 0 THEN vi ELSE vmax]_vars
C21_Witness ==
  /\ Resolved
  /\ Len(vlist) = 3
  /\ vmax = 1
  /\ vlist[2] # vlist[1]
  /\ ~ DpkgGt(vlist[2], vlist[1]) /\ ~ DpkgGt(vlist[1], vlist[2])
  /\ vstat[2] = 1
  /\ DpkgGt(vlist[3], vlist[1]) /\ vstat[3] = 2

\* C22: for every package and stage the complete directory and the partial
\* directory never exist together, whatever rebuild and retry are and whichever
\* commands fail: a partial directory is created only while there is no
\* complete one, and a complete directory appears only by the step that
\* takes the partial one away.
C22_NeverBoth ==
  /\ [](\A p \in Pkgs, s \in Stages :
          ~ (Complete(p, s).exists /\ Partial(p, s).exists))
  /\ [][\A p \in Pkgs, s \in Stages :
          /\ Partial(p, s).exists' /\ ~ Partial(p, s).exists =>
               ~ Complete(p, s).exists /\ ~ Complete(p, s).exists'
          /\ Complete(p, s).exists' /\ ~ Complete(p, s).exists =>
               /\ Partial(p, s).exists /\ ~ Partial(p, s).exists'
               /\ Complete(p, s)' = Partial(p, s)]_vars
C22_Witness ==
  \E p \in Pkgs :
    /\ run = 2
    /\ entry[p]["source"].complete.exists /\ entry[p]["source"].rebuild
    /\ Complete(p, "source").gen = 2
    /\ entry[p]["amd64"].complete.exists
    /\ Partial(p, "amd64").exists /\ Partial(p, "amd64").gen = 2
    /\ ~ Complete(p, "amd64").exists
    /\ result[p]["amd64"] = "CommandFailed"
    /\ entry[p]["i386"].partial.exists /\ entry[p]["i386"].retry
    /\ Complete(p, "i386").gen = 2

\* C23: no step changes a complete directory that exists, or the partial
\* directory next to it; and no step changes a partial directory that is there
\* while no process runs or that was made in an earlier run, or makes a
\* complete directory of it: what is Complete or Partial when a run starts is
\* the same at the end of that run and of every later run.
Stale(p, s) == Partial(p, s).exists /\ (pc = "idle" \/ Partial(p, s).gen < run)
C23_StagesStable ==
  /\ [](\A p \in Pkgs, s \in Stages :
          Partial(p, s).exists /\ Partial(p, s).gen < run =>
            /\ ~ Complete(p, s).exists
            /\ NoCmdRan(p, s)
            /\ result[p][s] \in {"none", "AlreadyExists"})
  /\ [][\A p \in Pkgs, s \in Stages :
          /\ Complete(p, s).exists => disk'[p][s] = disk[p][s]
          /\ Stale(p, s) => disk'[p][s] = disk[p][s]]_vars
C23_Witness ==
  /\ run = 2 /\ pc = "failed" /\ err = "AlreadyExists"
  /\ \A s \in Stages :
       /\ Complete(PkgList[1], s).exists /\ Complete(PkgList[1], s).gen = 1
       /\ Complete(PkgList[1], s) = entry[PkgList[1]][s].complete
       /\ result[PkgList[1]][s] = "Ok"
  /\ Partial(PkgList[2], "source").exists
  /\ Partial(PkgList[2], "source").gen = 1
  /\ Partial(PkgList[2], "source") = entry[PkgList[2]]["source"].partial
  /\ result[PkgList[2]]["source"] = "AlreadyExists"

\* C24: while the packages of a run are launched the pool is empty, in the
\* second loop the pool directories of the packages not yet reached are
\* empty, and when the second loop has ended the pool directory of every
\* selected package holds exactly the .deb files of its sbuild directories
\* whose worker returned Ok, and that of every other package is empty.
OkDebs(p) == UNION {Range(DebPaths(a, Complete(p, a))) :
                      a \in {b \in Archs : result[p][b] = "Ok"}}
C24_PoolOfThisRun ==
  /\ pc \in LaunchPcs => \A p \in Pkgs : pool[p] = {}
  /\ pc \in {"join", "join_thread", "link"} =>
       \A p \in Pkgs : PkgIndex(p) > idx => pool[p] = {}
  /\ pc \in {"publish", "ok"} =>
       \A p \in Pkgs : pool[p] = IF Selected(args, p) THEN OkDebs(p) ELSE {}
C24_Witness ==
  /\ run = 2 /\ pc = "ok"
  /\ args = {PkgList[2]}
  /\ prev.ok /\ prev.args = {PkgList[1]}
  /\ \E n \in DebFiles : n \in prev.art[PkgList[1]]["amd64"]
  /\ pool[PkgList[1]] = {}
  /\ result[PkgList[2]]["amd64"] = "Ok"
  /\ result[PkgList[2]]["i386"] = "CommandFailed"
  /\ Cardinality(pool[PkgList[2]]) = 2
  /\ \A l \in pool[PkgList[2]] : l.arch = "amd64"

====
